---- MODULE Spec2Model ----
(***************************************************************************)
(* A model of jskos.api: the raw JSKOS entities, the processed entities,   *)
(* and the process() methods that turn the former into the latter under a  *)
(* curies converter.                                                       *)
(*                                                                         *)
(* Python values are modelled as follows.                                  *)
(*   - an object is a record whose field k names its class;                *)
(*   - None standing for an object (a JSKOS set element) is NoneValue;     *)
(*   - an Optional field is None (the empty tuple) or Some(v);             *)
(*   - a list is a tuple; a dict is a tuple of [key, value] records with   *)
(*     pairwise distinct keys, in insertion order;                         *)
(*   - a URL string is a tuple of path segments, so that prefixes of it    *)
(*     can be taken;                                                       *)
(*   - the outcome of a call is [err, val]: err = "" and val = <<v>> when  *)
(*     it returned v, err the exception's name and val = <<>> when it      *)
(*     raised.                                                             *)
(***************************************************************************)
EXTENDS Integers, Sequences, FiniteSets, TLC

\* One caller: the converter, the raw entity it holds, the outcome of the
\* last process() call and the caller's position.
VARIABLES converter, raw, out, pc

\* A pool of worker threads: the documents, the outcome per document and
\* every worker's local frame of KOS.process.
VARIABLES docs, results, worker

\* One call followed frame by frame: the concept graph, the stack of
\* Concept.process frames, the outcome and the deepest stack seen.
VARIABLES graph, stack, ret, nesting

poolVars == <<docs, results, worker>>

stackVars == <<graph, stack, ret, nesting>>

vars == <<converter, raw, out, pc, poolVars, stackVars>>

---------------------------------------------------------------------------
(* Values *)

None == <<>>

Some(x) == <<x>>

NoneValue == [k |-> "NoneType"]

AnyUrl(s) == [k |-> "AnyUrl", s |-> s]

str(url) == url.s

ReferenceTuple(prefix, identifier) ==
    [k |-> "ReferenceTuple", prefix |-> prefix, identifier |-> identifier]

Reference(prefix, identifier) ==
    [k |-> "Reference", prefix |-> prefix, identifier |-> identifier]

to_pydantic(t) == Reference(t.prefix, t.identifier)

Ok(v) == [err |-> "", val |-> <<v>>]

Raise(e) == [err |-> e, val |-> <<>>]

IsOk(o) == o.err = ""

Val(o) == o.val[1]

\* The first exception raised when the calls os[1], os[2], ... are made in order.
FirstErr(os) ==
    os[CHOOSE i \in 1..Len(os) : ~IsOk(os[i]) /\ \A j \in 1..(i - 1) : IsOk(os[j])].err

\* A list comprehension: the list of the results, or the first exception.
Collect(os) ==
    IF \A i \in 1..Len(os) : IsOk(os[i])
    THEN Ok([i \in 1..Len(os) |-> Val(os[i])])
    ELSE Raise(FirstErr(os))

\* x if the call returned x, wrapped as the value of an Optional field.
Opt(o) == IF IsOk(o) THEN Ok(Some(Val(o))) ELSE o

---------------------------------------------------------------------------
(* The converter: a prefix table, a set of [prefix, uri_prefix] records.   *)

IsPrefixOf(p, s) == Len(p) <= Len(s) /\ SubSeq(s, 1, Len(p)) = p

\* converter.parse_uri(uri, strict=True): the longest registered URI prefix
\* wins; no match raises.
parse_uri(conv, uri) ==
    LET matches == {r \in conv : IsPrefixOf(r.uri_prefix, uri)}
    IN  IF matches = {}
        THEN Raise("UnresolvedURIError")
        ELSE LET r == CHOOSE r \in matches :
                          \A q \in matches : Len(q.uri_prefix) <= Len(r.uri_prefix)
             IN  Ok(ReferenceTuple(r.prefix,
                                   SubSeq(uri, Len(r.uri_prefix) + 1, Len(uri))))

\* converter.expand_pair(prefix, identifier)
expand(conv, ref) ==
    LET r == CHOOSE r \in conv : r.prefix = ref.prefix /\ ~r.synonym
    IN  r.uri_prefix \o ref.identifier

\* converter.parse_uri(str(url), strict=True).to_pydantic()
parse_to_pydantic(url, conv) ==
    LET o == parse_uri(conv, str(url))
    IN  IF IsOk(o) THEN Ok(to_pydantic(Val(o))) ELSE o

---------------------------------------------------------------------------
(* The raw classes: their fields and defaults.  Fields that no process()   *)
(* reads and no property below mentions (the notes, dates and links of     *)
(* ItemMixin, Concept.previous/next/ancestors/in_scheme/top_concept_of/    *)
(* occurrences) are left out.                                              *)

ResourceMixin ==
    [context |-> None, uri |-> None, identifier |-> None, type |-> None,
     created |-> None, issued |-> None, modified |-> None,
     creator |-> None, contributor |-> None, source |-> None,
     publisher |-> None, part_of |-> None, annotations |-> None,
     qualified_relations |-> None, qualified_dates |-> None,
     qualified_literals |-> None, rank |-> None]

QualifiedValue ==
    [start_date |-> None, end_date |-> None, source |-> None, rank |-> None]

ItemMixin ==
    [notation |-> None, preferred_label |-> None, alternative_label |-> None,
     hidden_label |-> None, scope_note |-> None, definition |-> None,
     example |-> None, place |-> None] @@ ResourceMixin

ConceptBundleMixin ==
    [member_set |-> None, member_list |-> None, member_choice |-> None]

\* Each constructor takes the fields given and defaults the others.
Resource(f) == f @@ [k |-> "Resource"] @@ ResourceMixin

QualifiedRelation(f) == f @@ [k |-> "QualifiedRelation"] @@ QualifiedValue

QualifiedDate(f) == f @@ [k |-> "QualifiedDate", place |-> None] @@ QualifiedValue

\* alloc names the call that allocated the object: every raw object comes
\* from model_validate (or the caller's constructor call), and an object
\* that is handed on unchanged keeps it.
QualifiedLiteralInner(string, language) ==
    [k |-> "QualifiedLiteralInner", string |-> string, language |-> language,
     alloc |-> "model_validate"]

QualifiedLiteral(f) ==
    f @@ [k |-> "QualifiedLiteral", uri |-> None, type |-> None] @@ QualifiedValue

Annotation(context, type, id, target) ==
    [k |-> "Annotation", context |-> context, type |-> type, id |-> id,
     target |-> target]

Item(f) == f @@ [k |-> "Item"] @@ ItemMixin

Mapping(f) ==
    f @@ [k |-> "Mapping", from_scheme |-> None, to_scheme |-> None,
          mapping_relevance |-> None, justification |-> None] @@ ItemMixin

ConceptScheme(f) ==
    f @@ [k |-> "ConceptScheme", top_concepts |-> None, namespace |-> None,
          uri_pattern |-> None, notation_pattern |-> None,
          notation_examples |-> None] @@ ItemMixin

ConceptBundle(f) == f @@ [k |-> "ConceptBundle"] @@ ConceptBundleMixin

Concept(f) ==
    f @@ [k |-> "Concept", narrower |-> None, broader |-> None, related |-> None,
          mappings |-> None, deprecated |-> None] @@ ItemMixin @@ ConceptBundleMixin

KOS(id, type, title, description, has_top_concept) ==
    [k |-> "KOS", id |-> id, type |-> type, title |-> title,
     description |-> description, has_top_concept |-> has_top_concept]

---------------------------------------------------------------------------
(* The processed classes: defaults, and the declared type of every field   *)
(* that holds objects.  Building a processed object validates the values   *)
(* given against the declared types (the classes are pydantic models).     *)

ProcessedQualifiedValue ==
    [start_date |-> None, end_date |-> None, source |-> None, rank |-> None]

ProcessedResource ==
    [context |-> None, reference |-> None, identifier |-> None, type |-> None,
     created |-> None, issued |-> None, modified |-> None,
     creator |-> None, contributor |-> None, source |-> None,
     publisher |-> None, part_of |-> None, annotations |-> None,
     qualified_relations |-> None, qualified_dates |-> None,
     qualified_literals |-> None, rank |-> None]

ProcessedItem ==
    [preferred_label |-> None, alternative_label |-> None, hidden_label |-> None,
     scope_note |-> None, definition |-> None, example |-> None]
    @@ ProcessedResource

ProcessedConceptBundle ==
    [member_set |-> None, member_list |-> None, member_choice |-> None]

ProcessedConceptScheme ==
    [top_concepts |-> None, namespace |-> None, uri_pattern |-> None,
     notation_pattern |-> None, notation_examples |-> None]

ProcessedMapping ==
    [from_scheme |-> None, to_scheme |-> None, mapping_relevance |-> None,
     justification |-> None]

ProcessedConcept ==
    [narrower |-> None, broader |-> None, related |-> None, mappings |-> None,
     deprecated |-> None] @@ ProcessedItem @@ ProcessedConceptBundle

\* ProcessedKOS.concepts defaults to the empty list.
ProcessedKOS == [concepts |-> Some(<<>>)]

Defaults(cls) ==
    CASE cls = "ProcessedQualifiedRelation" -> ProcessedQualifiedValue
      [] cls = "ProcessedQualifiedDate" -> [place |-> None] @@ ProcessedQualifiedValue
      [] cls = "ProcessedQualifiedLiteral" ->
             [reference |-> None, type |-> None] @@ ProcessedQualifiedValue
      [] cls = "ProcessedAnnotation" -> <<>>
      [] cls = "ProcessedResource" -> ProcessedResource
      [] cls = "ProcessedItem" -> ProcessedItem
      [] cls = "ProcessedConceptBundle" -> ProcessedConceptBundle
      [] cls = "ProcessedConceptScheme" -> ProcessedConceptScheme
      [] cls = "ProcessedMapping" -> ProcessedMapping
      [] cls = "ProcessedConcept" -> ProcessedConcept
      [] cls = "ProcessedKOS" -> ProcessedKOS

\* The classes whose instances pass isinstance(x, cls).
InstancesOf(cls) ==
    CASE cls = "ProcessedResource" ->
             {"ProcessedResource", "ProcessedItem", "ProcessedConcept"}
      [] cls = "ProcessedItem" -> {"ProcessedItem", "ProcessedConcept"}
      [] cls = "ProcessedConceptBundle" -> {"ProcessedConceptBundle", "ProcessedConcept"}
      [] OTHER -> {cls}

\* Declared field types.  shape "req": a required object; "one": an object
\* or None; "list": a list of objects or None (opt says whether None is
\* allowed); "dict": a dict from Reference to objects, or None.
TOne(cls) == [shape |-> "one", opt |-> TRUE, of |-> InstancesOf(cls)]

TReq(of) == [shape |-> "req", opt |-> FALSE, of |-> of]

TList(cls) == [shape |-> "list", opt |-> TRUE, of |-> InstancesOf(cls)]

TDict(cls) == [shape |-> "dict", opt |-> TRUE, of |-> InstancesOf(cls)]

\* ProcessedJSKOSSet = list[ProcessedResource | None]
ProcessedJSKOSSet ==
    [shape |-> "list", opt |-> TRUE,
     of |-> InstancesOf("ProcessedResource") \cup {"NoneType"}]

ProcessedQualifiedValueTypes == [source |-> ProcessedJSKOSSet]

\* Mutant: type is declared as in the raw class, a list of URLs.
ProcessedResourceTypes_RawType ==
    [reference |-> TOne("Reference"), identifier |-> TList("Reference"),
     type |-> TList("AnyUrl"),
     creator |-> ProcessedJSKOSSet, contributor |-> ProcessedJSKOSSet,
     source |-> ProcessedJSKOSSet, publisher |-> ProcessedJSKOSSet,
     part_of |-> ProcessedJSKOSSet,
     annotations |-> TList("ProcessedAnnotation"),
     qualified_relations |-> TDict("ProcessedQualifiedRelation"),
     qualified_dates |-> TDict("ProcessedQualifiedDate"),
     qualified_literals |-> TDict("ProcessedQualifiedLiteral")]

ProcessedResourceTypes ==
    [reference |-> TOne("Reference"), identifier |-> TList("Reference"),
     type |-> TList("Reference"),
     creator |-> ProcessedJSKOSSet, contributor |-> ProcessedJSKOSSet,
     source |-> ProcessedJSKOSSet, publisher |-> ProcessedJSKOSSet,
     part_of |-> ProcessedJSKOSSet,
     annotations |-> TList("ProcessedAnnotation"),
     qualified_relations |-> TDict("ProcessedQualifiedRelation"),
     qualified_dates |-> TDict("ProcessedQualifiedDate"),
     qualified_literals |-> TDict("ProcessedQualifiedLiteral")]

ProcessedConceptBundleTypes ==
    [member_set |-> TList("ProcessedConcept"),
     member_list |-> TList("ProcessedConcept"),
     member_choice |-> TList("ProcessedConcept")]

FieldTypes(cls) ==
    CASE cls = "ProcessedQualifiedRelation" ->
             [resource |-> TReq(InstancesOf("ProcessedResource"))]
             @@ ProcessedQualifiedValueTypes
      [] cls = "ProcessedQualifiedDate" ->
             [place |-> ProcessedJSKOSSet] @@ ProcessedQualifiedValueTypes
      [] cls = "ProcessedQualifiedLiteral" ->
             [literal |-> TReq({"QualifiedLiteralInner"}),
              reference |-> TOne("Reference"), type |-> TList("Reference")]
             @@ ProcessedQualifiedValueTypes
      [] cls = "ProcessedAnnotation" ->
             [context |-> TReq({"AnyUrl"}), reference |-> TReq({"Reference"}),
              target |-> TReq({"Reference"} \cup InstancesOf("ProcessedResource")
                              \cup {"ProcessedAnnotation"})]
      [] cls \in {"ProcessedResource", "ProcessedItem"} -> ProcessedResourceTypes
      [] cls = "ProcessedConceptBundle" -> ProcessedConceptBundleTypes
      [] cls = "ProcessedConceptScheme" ->
             [top_concepts |-> TList("ProcessedConcept"), namespace |-> TOne("AnyUrl")]
      [] cls = "ProcessedMapping" ->
             [from_bundle |-> TReq({"ProcessedConceptBundle"}),
              to_bundle |-> TReq({"ProcessedConceptBundle"}),
              from_scheme |-> TOne("ProcessedConceptScheme"),
              to_scheme |-> TOne("ProcessedConceptScheme"),
              justification |-> TOne("Reference")]
      [] cls = "ProcessedConcept" ->
             [narrower |-> TList("ProcessedConcept"),
              broader |-> TList("ProcessedConcept"),
              related |-> TList("ProcessedConcept"),
              mappings |-> TList("ProcessedMapping")]
             @@ ProcessedResourceTypes @@ ProcessedConceptBundleTypes
      [] cls = "ProcessedKOS" ->
             [concepts |-> [shape |-> "list", opt |-> FALSE,
                            of |-> {"ProcessedConcept"}]]

\* Whether value v is accepted for a field declared with type t.
FieldOk(t, v) ==
    CASE t.shape = "req" -> v.k \in t.of
      [] v = None -> t.opt
      [] t.shape = "one" -> v[1].k \in t.of
      [] t.shape = "list" -> \A i \in 1..Len(v[1]) : v[1][i].k \in t.of
      [] t.shape = "dict" ->
             \A i \in 1..Len(v[1]) :
                 v[1][i].key.k = "Reference" /\ v[1][i].value.k \in t.of

\* cls(name1=value1, ...): the keyword arguments are evaluated in order, so
\* the first one to raise decides the exception; then the object is built
\* and validated.  args[i] = <<field name, outcome of the argument>>.
Construct(cls, args) ==
    LET outs == [i \in 1..Len(args) |-> args[i][2]]
    IN  IF \E i \in 1..Len(outs) : ~IsOk(outs[i])
        THEN Raise(FirstErr(outs))
        ELSE LET given == [n \in {args[i][1] : i \in 1..Len(args)} |->
                              Val(args[CHOOSE i \in 1..Len(args) : args[i][1] = n][2])]
                 obj == given @@ Defaults(cls)
                 types == FieldTypes(cls)
             IN  IF \A n \in DOMAIN types : FieldOk(types[n], obj[n])
                 THEN Ok(obj @@ [k |-> cls])
                 ELSE Raise("ValidationError")

---------------------------------------------------------------------------
(* The process() methods and their helpers.                                *)

RECURSIVE process(_, _)
RECURSIVE process_many(_, _)
RECURSIVE _process_jskos_set(_, _)
RECURSIVE DictComprehension(_, _, _)
RECURSIVE _process_dict(_, _)
RECURSIVE QualifiedRelation_process(_, _)
RECURSIVE QualifiedDate_process(_, _)
RECURSIVE QualifiedLiteral_process(_, _)
RECURSIVE Annotation_process(_, _)
RECURSIVE Resource_process(_, _)
RECURSIVE Item_process(_, _)
RECURSIVE Mapping_process(_, _)
RECURSIVE ConceptScheme_process(_, _)
RECURSIVE ConceptBundle_process(_, _)
RECURSIVE Concept_process(_, _)
RECURSIVE KOS_process(_, _)

_parse_optional_url(url, conv) ==
    IF url = None THEN Ok(None) ELSE Opt(parse_to_pydantic(url[1], conv))

_parse_optional_urls(urls, conv) ==
    IF urls = None
    THEN Ok(None)
    ELSE Opt(Collect([i \in 1..Len(urls[1]) |-> parse_to_pydantic(urls[1][i], conv)]))

\* curies.mixins.process_many: None stays None, otherwise every element's
\* process() is called, whatever the element is.
process_many(instances, conv) ==
    IF instances = None
    THEN Ok(None)
    ELSE Opt(Collect([i \in 1..Len(instances[1]) |-> process(instances[1][i], conv)]))

_process_jskos_set(s, conv) ==
    IF s = None
    THEN Ok(None)
    ELSE Opt(Collect([i \in 1..Len(s[1]) |->
                         IF s[1][i] # NoneValue
                         THEN process(s[1][i], conv)
                         ELSE Ok(NoneValue)]))

\* d[key] = value on an insertion-ordered dict: an existing key keeps its
\* position and takes the new value.
DictSet(d, key, value) ==
    IF \E j \in 1..Len(d) : d[j].key = key
    THEN [j \in 1..Len(d) |->
             IF d[j].key = key THEN [key |-> key, value |-> value] ELSE d[j]]
    ELSE Append(d, [key |-> key, value |-> value])

\* {parse(k): v.process(converter) for k, v in items}, continued from acc:
\* per entry the key is evaluated before the value.
DictComprehension(items, conv, acc) ==
    IF items = <<>>
    THEN Ok(acc)
    ELSE LET key == parse_to_pydantic(items[1].key, conv)
             value == process(items[1].value, conv)
         IN  IF ~IsOk(key) THEN key
             ELSE IF ~IsOk(value) THEN value
             ELSE DictComprehension(Tail(items), conv,
                                    DictSet(acc, Val(key), Val(value)))

_process_dict(i, conv) ==
    IF i = None THEN Ok(None) ELSE Opt(DictComprehension(i[1], conv, <<>>))

QualifiedRelation_process(self, conv) ==
    Construct("ProcessedQualifiedRelation", <<
        <<"start_date", Ok(self.start_date)>>,
        <<"end_date", Ok(self.end_date)>>,
        <<"source", _process_jskos_set(self.source, conv)>>,
        <<"rank", Ok(self.rank)>>,
        <<"resource", process(self.resource, conv)>> >>)

QualifiedDate_process(self, conv) ==
    Construct("ProcessedQualifiedDate", <<
        <<"start_date", Ok(self.start_date)>>,
        <<"end_date", Ok(self.end_date)>>,
        <<"source", _process_jskos_set(self.source, conv)>>,
        <<"rank", Ok(self.rank)>>,
        <<"date", Ok(self.date)>>,
        <<"place", _process_jskos_set(self.place, conv)>> >>)

QualifiedLiteral_process(self, conv) ==
    Construct("ProcessedQualifiedLiteral", <<
        <<"start_date", Ok(self.start_date)>>,
        <<"end_date", Ok(self.end_date)>>,
        <<"source", _process_jskos_set(self.source, conv)>>,
        <<"rank", Ok(self.rank)>>,
        <<"literal", Ok(self.literal)>>,
        <<"reference", _parse_optional_url(self.uri, conv)>>,
        <<"type", _parse_optional_urls(self.type, conv)>> >>)

\* Mutant: the first case misses Annotation().
AnnotationTarget_ResourceOnly(self, conv) ==
    CASE self.target.k = "Resource" -> process(self.target, conv)
      [] self.target.k = "AnyUrl" -> parse_to_pydantic(self.target, conv)
      [] OTHER -> Raise("TypeError")

\* Mutant: the last case passes the target on instead of raising.
AnnotationTarget_NoRaise(self, conv) ==
    CASE self.target.k \in {"Resource", "Annotation"} -> process(self.target, conv)
      [] self.target.k = "AnyUrl" -> parse_to_pydantic(self.target, conv)
      [] OTHER -> Ok(self.target)

\* match self.target: Resource() | Annotation() / AnyUrl() / anything else
AnnotationTarget(self, conv) ==
    CASE self.target.k \in {"Resource", "Annotation"} -> process(self.target, conv)
      [] self.target.k = "AnyUrl" -> parse_to_pydantic(self.target, conv)
      [] OTHER -> Raise("TypeError")

Annotation_process(self, conv) ==
    LET target == AnnotationTarget(self, conv)
    IN  IF ~IsOk(target)
        THEN target
        ELSE Construct("ProcessedAnnotation", <<
                 <<"context", Ok(self.context)>>,
                 <<"type", Ok(self.type)>>,
                 <<"reference", parse_to_pydantic(self.id, conv)>>,
                 <<"target", target>> >>)

Resource_process(self, conv) ==
    Construct("ProcessedResource", <<
        <<"context", Ok(self.context)>>,
        <<"reference", IF self.uri # None
                       THEN Opt(parse_uri(conv, str(self.uri[1])))
                       ELSE Ok(None)>>,
        <<"identifier", _parse_optional_urls(self.identifier, conv)>>,
        <<"type", Ok(self.type)>>,
        <<"created", Ok(self.created)>>,
        <<"issued", Ok(self.issued)>>,
        <<"modified", Ok(self.modified)>>,
        <<"creator", _process_jskos_set(self.creator, conv)>>,
        <<"contributor", _process_jskos_set(self.contributor, conv)>>,
        <<"source", _process_jskos_set(self.source, conv)>>,
        <<"publisher", _process_jskos_set(self.publisher, conv)>>,
        <<"part_of", _process_jskos_set(self.part_of, conv)>>,
        <<"annotations", process_many(self.annotations, conv)>>,
        <<"qualified_relations", _process_dict(self.qualified_relations, conv)>>,
        <<"qualified_dates", _process_dict(self.qualified_dates, conv)>>,
        <<"qualified_literals", _process_dict(self.qualified_literals, conv)>>,
        <<"rank", Ok(self.rank)>> >>)

Item_process(self, conv) ==
    Construct("ProcessedItem", <<
        <<"reference", _parse_optional_url(self.uri, conv)>>,
        <<"identifier", _parse_optional_urls(self.identifier, conv)>>,
        <<"type", Ok(self.type)>>,
        <<"created", Ok(self.created)>>,
        <<"issued", Ok(self.issued)>>,
        <<"modified", Ok(self.modified)>>,
        <<"preferred_label", Ok(self.preferred_label)>>,
        <<"alternative_label", Ok(self.alternative_label)>>,
        <<"hidden_label", Ok(self.hidden_label)>>,
        <<"scope_note", Ok(self.scope_note)>>,
        <<"definition", Ok(self.definition)>>,
        <<"example", Ok(self.example)>> >>)

Mapping_process(self, conv) ==
    Construct("ProcessedMapping", <<
        <<"from_bundle", process(self.subject_bundle, conv)>>,
        <<"to_bundle", process(self.object_bundle, conv)>>,
        <<"from_scheme", IF self.from_scheme # None
                         THEN Opt(process(self.from_scheme[1], conv))
                         ELSE Ok(None)>>,
        <<"to_scheme", IF self.to_scheme # None
                       THEN Opt(process(self.to_scheme[1], conv))
                       ELSE Ok(None)>>,
        <<"mapping_relevance", Ok(self.mapping_relevance)>>,
        <<"justification", IF self.justification # None
                           THEN Opt(parse_uri(conv, str(self.justification[1])))
                           ELSE Ok(None)>> >>)

ConceptScheme_process(self, conv) ==
    Construct("ProcessedConceptScheme", <<
        <<"top_concepts", process_many(self.top_concepts, conv)>>,
        <<"namespace", Ok(self.namespace)>>,
        <<"uri_pattern", Ok(self.uri_pattern)>>,
        <<"notation_pattern", Ok(self.notation_pattern)>>,
        <<"notation_examples", Ok(self.notation_examples)>> >>)

ConceptBundle_process(self, conv) ==
    Construct("ProcessedConceptBundle", <<
        <<"member_set", process_many(self.member_set, conv)>>,
        <<"member_list", process_many(self.member_list, conv)>>,
        <<"member_choice", process_many(self.member_choice, conv)>> >>)

Concept_process(self, conv) ==
    Construct("ProcessedConcept", <<
        <<"narrower", process_many(self.narrower, conv)>>,
        <<"broader", process_many(self.broader, conv)>>,
        <<"related", process_many(self.related, conv)>>,
        <<"mappings", process_many(self.mappings, conv)>>,
        <<"deprecated", Ok(self.deprecated)>> >>)

KOS_process(self, conv) ==
    Construct("ProcessedKOS", <<
        <<"id", Ok(self.id)>>,
        <<"type", Ok(self.type)>>,
        <<"title", Ok(self.title)>>,
        <<"description", Ok(self.description)>>,
        <<"concepts", process_many(self.has_top_concept, conv)>> >>)

\* x.process(converter): the method of x's class; an object without one
\* (None among them) raises AttributeError.
process(x, conv) ==
    CASE x.k = "Resource" -> Resource_process(x, conv)
      [] x.k = "Item" -> Item_process(x, conv)
      [] x.k = "Concept" -> Concept_process(x, conv)
      [] x.k = "Mapping" -> Mapping_process(x, conv)
      [] x.k = "ConceptScheme" -> ConceptScheme_process(x, conv)
      [] x.k = "ConceptBundle" -> ConceptBundle_process(x, conv)
      [] x.k = "Annotation" -> Annotation_process(x, conv)
      [] x.k = "QualifiedRelation" -> QualifiedRelation_process(x, conv)
      [] x.k = "QualifiedDate" -> QualifiedDate_process(x, conv)
      [] x.k = "QualifiedLiteral" -> QualifiedLiteral_process(x, conv)
      [] x.k = "KOS" -> KOS_process(x, conv)
      [] OTHER -> Raise("AttributeError")

---------------------------------------------------------------------------
(* Bounds and the inputs drawn within them.                                *)

\* The longest list (URL list, JSKOS set, annotation list) of an input.
MaxLen == 3

\* The deepest nesting of single-child wrappers around an input.
MaxDepth == 2

\* The most entries of a qualified dictionary of an input.
MaxKeys == 2

SeqsUpTo(S, n) == UNION {[1..m -> S] : m \in 0..n}

\* A URL is the tuple of the chunks whose concatenation is its text.
Q406 == AnyUrl(<<"http://www.wikidata.org/", "entity/", "Q406">>)

PrefLabel == AnyUrl(<<"http://www.w3.org/2008/05/", "skos-xl#", "prefLabel">>)

PrefLabelHttps == AnyUrl(<<"https://www.w3.org/2008/05/", "skos-xl#", "prefLabel">>)

Label == AnyUrl(<<"http://www.w3.org/2008/05/", "skos-xl#", "Label">>)

P395 == AnyUrl(<<"https://www.wikidata.org/", "wiki/", "Property:P395">>)

Unregistered == AnyUrl(<<"http://unregistered.example/", "x">>)

Context == AnyUrl(<<"https://gbv.github.io/", "jskos/", "context.json">>)

Wikidata ==
    [prefix |-> "wikidata", uri_prefix |-> <<"http://www.wikidata.org/", "entity/">>,
     synonym |-> FALSE]

Skosxl ==
    [prefix |-> "skosxl", uri_prefix |-> <<"http://www.w3.org/2008/05/", "skos-xl#">>,
     synonym |-> FALSE]

\* A URI prefix synonym of skosxl: the namespace under https.
SkosxlHttps ==
    [prefix |-> "skosxl", uri_prefix |-> <<"https://www.w3.org/2008/05/", "skos-xl#">>,
     synonym |-> TRUE]

W3 ==
    [prefix |-> "w3", uri_prefix |-> <<"http://www.w3.org/2008/05/">>,
     synonym |-> FALSE]

\* The converter of the tests, and three larger ones: in the third, two
\* registered prefixes match every skos-xl URL; in the last, skosxl has a
\* second URI prefix, so that two URLs compact to one reference.
Converters ==
    {{Wikidata}, {Wikidata, Skosxl}, {Wikidata, Skosxl, W3},
     {Wikidata, Skosxl, SkosxlHttps}}

URLs == {Q406, PrefLabel, Unregistered}

UrlLists == SeqsUpTo(URLs, MaxLen)

LanguageMap == [de |-> "Mittelalterliche Philosophie", en |-> "Medieval philosophy"]

LanguageMapOfList == [en |-> <<"Constantinople", "Byzantium">>]

RId == Resource([identifier |-> Some(<<Q406>>)])

RUri == Resource([uri |-> Some(Q406)])

RBad == Resource([identifier |-> Some(<<Unregistered>>)])

LeafResources ==
    {Resource(<<>>), RId, RUri, RBad,
     Resource([uri |-> Some(Unregistered)]),
     Resource([rank |-> Some("preferred"), context |-> Some(Context),
               created |-> Some("2017-11-22")])}

JSKOSSets == SeqsUpTo({NoneValue, RId, RUri, RBad}, MaxLen)

SetFields == {"creator", "contributor", "source", "publisher", "part_of"}

\* A value that is none of the variants of Annotation.target.
Other == [k |-> "str", s |-> <<"http://www.wikidata.org/", "entity/", "Q406">>]

RECURSIVE Annotations(_)
Annotations(d) ==
    LET targets == URLs \cup LeafResources \cup {Other, Item(<<>>)}
                   \cup (IF d = 0 THEN {} ELSE Annotations(d - 1))
    IN  {Annotation(Context, "Annotation", id, t) :
            id \in {Q406, Unregistered}, t \in targets}

Literals ==
    {QualifiedLiteralInner("Istanbul", Some("tr")),
     QualifiedLiteralInner("34", None)}

QualifiedLiterals ==
    {QualifiedLiteral([literal |-> l, uri |-> u, type |-> t, source |-> s, rank |-> r]) :
        l \in Literals, u \in {None, Some(Q406), Some(Unregistered)},
        t \in {None, Some(<<Label>>), Some(<<Label, Unregistered>>)},
        s \in {None, Some(<<NoneValue, RId>>)},
        r \in {None, Some("preferred")}}

QualifiedRelations ==
    {QualifiedRelation([resource |-> x, source |-> s, rank |-> r]) :
        x \in LeafResources, s \in {None, Some(<<RBad>>)},
        r \in {None, Some("deprecated")}}

QualifiedDates ==
    {QualifiedDate([date |-> "1930-03-28", place |-> p, source |-> s,
                    start_date |-> d]) :
        p \in {None} \cup {Some(x) : x \in JSKOSSets},
        s \in {None, Some(<<NoneValue>>)}, d \in {None, Some("1930")}}

\* The dicts of at most MaxKeys entries with keys from K and values from V.
Dicts(K, V) ==
    {d \in SeqsUpTo([key : K, value : V], MaxKeys) :
        \A i, j \in 1..Len(d) : i # j => d[i].key # d[j].key}

DictKeys == {PrefLabel, Label, Unregistered}

DictLiterals ==
    {QualifiedLiteral([literal |-> QualifiedLiteralInner("Istanbul", Some("tr")),
                       type |-> t, rank |-> r]) :
        t \in {None, Some(<<Label>>)}, r \in {None, Some("preferred")}}

DictRelations ==
    {QualifiedRelation([resource |-> x]) : x \in {Resource(<<>>), RId, RUri}}

DictDates ==
    {QualifiedDate([date |-> "1930-03-28", place |-> p]) :
        p \in {None, Some(<<NoneValue, RId>>)}}

CoreResources ==
    LeafResources
    \cup {Resource([identifier |-> Some(l)]) : l \in UrlLists}
    \cup {Resource([type |-> Some(l)]) : l \in SeqsUpTo({Label, Unregistered}, 1)}
    \cup {Resource([n \in {f} |-> Some(s)]) : f \in SetFields, s \in JSKOSSets}
    \cup {Resource([annotations |-> Some(l)]) : l \in SeqsUpTo(Annotations(0), 1)}
    \cup {Resource([qualified_literals |-> Some(d)]) : d \in Dicts(DictKeys, DictLiterals)}
    \cup {Resource([qualified_relations |-> Some(d)]) :
             d \in Dicts(DictKeys, DictRelations)}
    \cup {Resource([qualified_dates |-> Some(d)]) : d \in Dicts(DictKeys, DictDates)}

\* x below d single-child wrappers: a creator set, a qualified relation or
\* an annotation target.
RECURSIVE Nest(_, _)
Nest(d, X) ==
    IF d = 0
    THEN X
    ELSE LET Y == Nest(d - 1, X)
         IN  {Resource([creator |-> Some(<<NoneValue, y>>)]) : y \in Y}
             \cup {Resource([qualified_relations |->
                       Some(<<[key |-> PrefLabel,
                               value |-> QualifiedRelation([resource |-> y])]>>)]) :
                      y \in Y}
             \cup {Resource([annotations |->
                       Some(<<Annotation(Context, "Annotation", Q406, y)>>)]) : y \in Y}

ResourceInputs ==
    CoreResources \cup UNION {Nest(d, LeafResources) : d \in 1..MaxDepth}

ItemInputs ==
    {Item([uri |-> u, identifier |-> i, type |-> t, preferred_label |-> l,
           scope_note |-> n, rank |-> r, creator |-> c]) :
        u \in {None, Some(Q406), Some(Unregistered)},
        i \in {None, Some(<<>>), Some(<<Q406, PrefLabel>>)},
        t \in {None, Some(<<>>), Some(<<Label>>)},
        l \in {None, Some(LanguageMap)},
        n \in {None, Some(LanguageMapOfList)},
        r \in {None, Some("preferred")},
        c \in {None, Some(<<NoneValue, RId, NoneValue>>)}}

\* The record of tests/test_api.py test_18, a qualified literal per key.
Example18 ==
    Concept([uri |-> Some(Q406),
             qualified_literals |-> Some(<<
                 [key |-> PrefLabel,
                  value |-> QualifiedLiteral(
                      [type |-> Some(<<Label>>),
                       literal |-> QualifiedLiteralInner("Istanbul", Some("tr")),
                       rank |-> Some("preferred")])],
                 [key |-> P395,
                  value |-> QualifiedLiteral(
                      [literal |-> QualifiedLiteralInner("34", None)])]>>)])

ConceptSets ==
    {None, Some(<<>>), Some(<<NoneValue>>), Some(<<Resource(<<>>)>>),
     Some(<<NoneValue, RId, NoneValue>>), Some(<<RBad>>)}

MemberConcepts ==
    {Concept(<<>>), Concept([uri |-> Some(Q406)]),
     Concept([uri |-> Some(Unregistered)]),
     Concept([narrower |-> Some(<<>>), deprecated |-> Some(TRUE)]),
     Concept([broader |-> Some(<<Resource(<<>>)>>)])}

ConceptLists == {None} \cup {Some(l) : l \in SeqsUpTo(MemberConcepts, MaxLen - 1)}

ConceptBundleInputs ==
    {ConceptBundle([member_set |-> s, member_list |-> l]) :
        s \in ConceptLists, l \in {None, Some(<<Concept(<<>>)>>)}}
    \cup {ConceptBundle([member_choice |-> s]) : s \in ConceptLists}

ConceptSchemeInputs ==
    {ConceptScheme([top_concepts |-> c, namespace |-> n, uri |-> u]) :
        c \in ConceptLists, n \in {None, Some(Unregistered)},
        u \in {None, Some(Unregistered)}}

Bundles ==
    {ConceptBundle(<<>>), ConceptBundle([member_set |-> Some(<<Concept(<<>>)>>)]),
     ConceptBundle([member_set |-> Some(<<Concept([related |-> Some(<<RId>>)])>>)])}

MappingInputs ==
    {Mapping([subject_bundle |-> f, object_bundle |-> t, from_scheme |-> s,
              mapping_relevance |-> m, justification |-> j, uri |-> u,
              preferred_label |-> l]) :
        f \in Bundles, t \in Bundles,
        s \in {None, Some(ConceptScheme(<<>>))},
        m \in {None, Some("0.5")},
        j \in {None, Some(Q406), Some(Unregistered)},
        u \in {None, Some(Unregistered)}, l \in {None, Some(LanguageMap)}}

Mappings == {Mapping([subject_bundle |-> ConceptBundle(<<>>),
                      object_bundle |-> ConceptBundle(<<>>),
                      mapping_relevance |-> Some("0.5")])}

ConceptInputs ==
    {Example18,
     Concept([qualified_literals |-> Some(<<
                 [key |-> PrefLabel,
                  value |-> QualifiedLiteral(
                      [literal |-> QualifiedLiteralInner("Istanbul", Some("tr"))])]>>)])}
    \cup {Concept([uri |-> u, identifier |-> i, preferred_label |-> l, rank |-> r,
                   narrower |-> n, related |-> x]) :
             u \in {None, Some(Q406), Some(Unregistered)},
             i \in {None, Some(<<Q406, PrefLabel>>), Some(<<Unregistered>>)},
             l \in {None, Some(LanguageMap)}, r \in {None, Some("normal")},
             n \in ConceptSets, x \in {None, Some(<<>>)}}
    \cup {Concept([broader |-> b, mappings |-> m, deprecated |-> d,
                   member_set |-> s]) :
             b \in ConceptSets, m \in {None, Some(<<>>)} \cup {Some(<<y>>) : y \in Mappings},
             d \in {None, Some(FALSE)}, s \in {None, Some(<<Concept(<<>>)>>)}}

\* Dicts of two or three entries among whose keys are the two spellings of
\* skos-xl prefLabel.
CollidingDicts(V) ==
    {d \in UNION {[1..n -> [key : {PrefLabel, PrefLabelHttps, Label}, value : V]] :
                     n \in 2..(MaxKeys + 1)} :
        /\ \A i, j \in 1..Len(d) : i # j => d[i].key # d[j].key
        /\ {PrefLabel, PrefLabelHttps} \subseteq {d[i].key : i \in 1..Len(d)}}

CollisionInputs ==
    {Resource([qualified_literals |-> Some(d)]) : d \in CollidingDicts(DictLiterals)}
    \cup {Resource([qualified_relations |-> Some(d)]) :
             d \in CollidingDicts(DictRelations)}
    \cup {Resource([qualified_dates |-> Some(d)]) : d \in CollidingDicts(DictDates)}
    \cup {Item([qualified_dates |-> Some(d)]) : d \in CollidingDicts(DictDates)}
    \cup {Concept([qualified_relations |-> Some(d)]) :
             d \in CollidingDicts(DictRelations)}

KOSInputs ==
    {KOS("oefos2012", "ConceptScheme", LanguageMap, LanguageMap, c) : c \in ConceptLists}

AnnotationInputs == Annotations(MaxDepth)

Inputs ==
    ResourceInputs \cup ItemInputs \cup ConceptInputs \cup MappingInputs
    \cup ConceptSchemeInputs \cup ConceptBundleInputs \cup AnnotationInputs
    \cup QualifiedRelations \cup QualifiedDates \cup QualifiedLiterals
    \cup KOSInputs \cup CollisionInputs

---------------------------------------------------------------------------
(* The state machine: a caller holds a converter, builds a raw entity and  *)
(* calls its process() method.                                             *)

NoOutcome == [err |-> "not called", val |-> <<>>]

\* No pool of workers is running.
NoPool ==
    /\ docs = <<>>
    /\ results = <<>>
    /\ worker = <<>>

\* No call is being followed frame by frame.
NoStack ==
    /\ graph = <<>>
    /\ stack = <<>>
    /\ ret = NoOutcome
    /\ nesting = 0

Init ==
    /\ converter \in Converters
    /\ raw = NoneValue
    /\ out = NoOutcome
    /\ pc = "idle"
    /\ NoPool
    /\ NoStack

\* The caller builds (or validates from JSON) a raw entity.
Load ==
    /\ pc = "idle"
    /\ raw' \in Inputs
    /\ out' = NoOutcome
    /\ pc' = "loaded"
    /\ UNCHANGED <<converter, poolVars, stackVars>>

\* Mutant: the call pops the entity's context, as _process does with the
\* "@context" key of the JSON it is given.
Call_PopContext(cls, result) ==
    /\ pc \in {"loaded", "done"}
    /\ raw.k = cls
    /\ out' = result
    /\ pc' = "done"
    /\ raw' = IF "context" \in DOMAIN raw /\ cls # "Annotation"
              THEN [raw EXCEPT !.context = None]
              ELSE raw
    /\ UNCHANGED <<converter, poolVars, stackVars>>

\* raw.process(converter) for a raw entity of class cls; the caller may call
\* it again on the entity it holds.
Call(cls, result) ==
    /\ pc \in {"loaded", "done"}
    /\ raw.k = cls
    /\ out' = result
    /\ pc' = "done"
    /\ UNCHANGED <<raw, converter, poolVars, stackVars>>

ProcessResource == Call("Resource", Resource_process(raw, converter))

ProcessItem == Call("Item", Item_process(raw, converter))

ProcessConcept == Call("Concept", Concept_process(raw, converter))

ProcessMapping == Call("Mapping", Mapping_process(raw, converter))

ProcessConceptScheme == Call("ConceptScheme", ConceptScheme_process(raw, converter))

ProcessConceptBundle == Call("ConceptBundle", ConceptBundle_process(raw, converter))

ProcessAnnotation == Call("Annotation", Annotation_process(raw, converter))

ProcessQualifiedRelation ==
    Call("QualifiedRelation", QualifiedRelation_process(raw, converter))

ProcessQualifiedDate == Call("QualifiedDate", QualifiedDate_process(raw, converter))

ProcessQualifiedLiteral ==
    Call("QualifiedLiteral", QualifiedLiteral_process(raw, converter))

ProcessKOS == Call("KOS", KOS_process(raw, converter))

\* The caller assigns raw.literal.string on the qualified literal it holds
\* (the models are not frozen).  Whoever holds the same object sees the new
\* string.
AssignLiteral ==
    /\ pc = "done"
    /\ raw.k = "QualifiedLiteral"
    /\ raw' = [raw EXCEPT !.literal.string = "Constantinople"]
    /\ out' = IF IsOk(out) /\ Val(out).literal.alloc = raw.literal.alloc
              THEN [out EXCEPT !.val[1].literal.string = "Constantinople"]
              ELSE out
    /\ pc' = "assigned"
    /\ UNCHANGED <<converter, poolVars, stackVars>>

\* The caller drops the entity and its result.
Reset ==
    /\ pc \in {"done", "assigned"}
    /\ raw' = NoneValue
    /\ out' = NoOutcome
    /\ pc' = "idle"
    /\ UNCHANGED <<converter, poolVars, stackVars>>

Next ==
    \/ Load
    \/ Reset
    \/ AssignLiteral
    \/ ProcessResource
    \/ ProcessItem
    \/ ProcessConcept
    \/ ProcessMapping
    \/ ProcessConceptScheme
    \/ ProcessConceptBundle
    \/ ProcessAnnotation
    \/ ProcessQualifiedRelation
    \/ ProcessQualifiedDate
    \/ ProcessQualifiedLiteral
    \/ ProcessKOS

Spec == Init /\ [][Next]_vars

Done == pc = "done"

TypeOK == pc \in {"idle", "loaded", "done", "assigned"}

---------------------------------------------------------------------------
(* Reading a raw tree: the URLs an entity holds in URI-bearing positions   *)
(* and the entities nested in it.                                          *)

ListFields ==
    {"creator", "contributor", "source", "publisher", "part_of", "annotations",
     "place", "narrower", "broader", "related", "mappings", "member_set",
     "member_list", "member_choice", "top_concepts", "has_top_concept"}

DictFields == {"qualified_relations", "qualified_dates", "qualified_literals"}

JSKOSSetFields == SetFields \cup {"place", "narrower", "broader", "related"}

Elements(l) == {l[i] : i \in 1..Len(l)}

OwnUrls(x) ==
    (IF "uri" \in DOMAIN x /\ x.uri # None THEN {x.uri[1]} ELSE {})
    \cup (IF "identifier" \in DOMAIN x /\ x.identifier # None
          THEN Elements(x.identifier[1]) ELSE {})
    \cup (IF "justification" \in DOMAIN x /\ x.justification # None
          THEN {x.justification[1]} ELSE {})
    \cup (IF x.k = "Annotation"
          THEN {x.id} \cup (IF x.target.k = "AnyUrl" THEN {x.target} ELSE {})
          ELSE {})
    \cup UNION {IF x[f] # None THEN {e.key : e \in Elements(x[f][1])} ELSE {} :
                   f \in DictFields \cap DOMAIN x}

Children(x) ==
    (UNION {IF x[f] # None THEN Elements(x[f][1]) \ {NoneValue} ELSE {} :
               f \in ListFields \cap DOMAIN x})
    \cup UNION {IF x[f] # None THEN {e.value : e \in Elements(x[f][1])} ELSE {} :
                   f \in DictFields \cap DOMAIN x}
    \cup UNION {IF x[f] # None THEN {x[f][1]} ELSE {} :
                   f \in {"from_scheme", "to_scheme"} \cap DOMAIN x}
    \cup {x[f] : f \in {"resource", "subject_bundle", "object_bundle"} \cap DOMAIN x}
    \cup (IF x.k = "Annotation" /\ x.target.k \notin {"AnyUrl", "str"}
          THEN {x.target} ELSE {})

Resolves(url, conv) == IsOk(parse_uri(conv, str(url)))

\* Some URL of the tree rooted at x, at any depth, matches no prefix of conv.
RECURSIVE HasUnresolved(_, _)
HasUnresolved(x, conv) ==
    \/ \E u \in OwnUrls(x) : ~Resolves(u, conv)
    \/ \E c \in Children(x) : HasUnresolved(c, conv)

\* The URLs of x.type (of an Annotation or a KOS the type is a plain string).
TypeUrls(x) ==
    IF "type" \in DOMAIN x /\ x.k \notin {"Annotation", "KOS"} /\ x.type # None
    THEN Elements(x.type[1]) ELSE {}

\* Nothing in x but x's own processing can fail: every URL of x resolves and
\* every entity nested in x can be processed.
Sound(x, conv) ==
    /\ ~HasUnresolved(x, conv)
    /\ \A u \in TypeUrls(x) : Resolves(u, conv)
    /\ \A c \in Children(x) : IsOk(process(c, conv))

---------------------------------------------------------------------------
(* Properties *)

\* C1: a Concept whose uri compacts to reference R is processed to a concept
\* whose reference is R, and expanding R gives the uri back.
C1_ConceptReferenceRoundTrip ==
    (Done /\ raw.k = "Concept" /\ raw.uri # None /\ IsOk(out)
          /\ Resolves(raw.uri[1], converter))
    => LET R == Val(parse_uri(converter, str(raw.uri[1])))
       IN  /\ Val(out).reference = Some(to_pydantic(R))
           /\ expand(converter, R) = str(raw.uri[1])

\* C2: processing a tree that holds, at any depth, a URL in a URI-bearing
\* position that matches no registered prefix fails with the unresolved-URI
\* error and returns no entity.
C2_StrictFailure ==
    (Done /\ HasUnresolved(raw, converter)) => out.err = "UnresolvedURIError"

\* The processed JSKOS set p of the raw set s: same length, None where s has
\* None, the processed element elsewhere.
PreservesNulls(s, p, conv) ==
    /\ p # None
    /\ Len(p[1]) = Len(s)
    /\ \A i \in 1..Len(s) :
          IF s[i] = NoneValue
          THEN p[1][i] = NoneValue
          ELSE p[1][i] # NoneValue /\ p[1][i] = Val(process(s[i], conv))

\* C3: when a JSKOS-set field of the raw entity is a list (every entity
\* nested in the raw entity can be processed and the tree holds no
\* unresolvable URL), processing succeeds and the processed field has the same
\* length, None exactly where the raw list has None, and the processed
\* elements elsewhere.
C3_NullPreservation ==
    \A f \in JSKOSSetFields :
        (Done /\ f \in DOMAIN raw /\ raw[f] # None /\ Sound(raw, converter))
        => /\ IsOk(out)
           /\ f \in DOMAIN Val(out)
           /\ PreservesNulls(raw[f][1], Val(out)[f], converter)


\* Whether every identifier-bearing field of the processed tree p holds a
\* Reference whose prefix is registered, and no URL.
IsCompact(v, conv) == v.k = "Reference" /\ \E r \in conv : r.prefix = v.prefix

ProcessedListFields ==
    (ListFields \ {"has_top_concept"}) \cup {"concepts"}

RECURSIVE AllCompact(_, _)
AllCompact(p, conv) ==
    /\ \A f \in {"reference", "justification"} \cap DOMAIN p :
          IF p.k = "ProcessedAnnotation"
          THEN IsCompact(p[f], conv)
          ELSE p[f] = None \/ IsCompact(p[f][1], conv)
    /\ \A f \in {"identifier", "type"} \cap DOMAIN p :
          p.k \in {"ProcessedAnnotation", "ProcessedKOS"} \/ p[f] = None
          \/ \A v \in Elements(p[f][1]) : IsCompact(v, conv)
    /\ p.k = "ProcessedAnnotation" =>
          \/ IsCompact(p.target, conv)
          \/ /\ p.target.k \in {"ProcessedResource", "ProcessedAnnotation"}
             /\ AllCompact(p.target, conv)
    /\ \A f \in DictFields \cap DOMAIN p :
          p[f] = None
          \/ \A e \in Elements(p[f][1]) :
                IsCompact(e.key, conv) /\ AllCompact(e.value, conv)
    /\ \A f \in ProcessedListFields \cap DOMAIN p :
          p[f] = None
          \/ \A c \in Elements(p[f][1]) : c = NoneValue \/ AllCompact(c, conv)
    /\ \A f \in {"from_scheme", "to_scheme"} \cap DOMAIN p :
          p[f] = None \/ AllCompact(p[f][1], conv)
    /\ \A f \in {"resource", "from_bundle", "to_bundle"} \cap DOMAIN p :
          AllCompact(p[f], conv)

\* C4: in every processed tree that a process call returns, every
\* identifier-bearing field (reference, identifier, type, justification,
\* annotation reference and target, qualified-literal reference and type, the
\* keys of the qualified dicts) holds a compact reference and no raw URL.
C4_NoRawUrlRemains == (Done /\ IsOk(out)) => AllCompact(Val(out), converter)

\* A Resource was processed whose qualified literals carry types and whose
\* processed keys and types are references.
C4_Witness ==
    /\ Done /\ IsOk(out) /\ raw.k = "Resource"
    /\ raw.qualified_literals # None
    /\ \E e \in Elements(raw.qualified_literals[1]) :
          e.value.type # None /\ e.value.type[1] # <<>>
    /\ \E e \in Elements(Val(out).qualified_literals[1]) :
          e.key.k = "Reference" /\ e.value.type # None
          /\ e.value.type[1][1].k = "Reference"

\* C5: a qualified dict of a resource all of whose keys resolve to distinct
\* references is processed to a dict with one entry per raw entry, in the same
\* order, keyed by the compacted key and holding the processed value; an
\* absent dict stays absent.
C5_DictKeyResolution ==
    \A f \in DictFields :
        (Done /\ f \in DOMAIN raw /\ IsOk(out) /\ Sound(raw, converter))
        => /\ raw[f] = None => (f \notin DOMAIN Val(out) \/ Val(out)[f] = None)
           /\ raw[f] # None =>
                 LET d == raw[f][1]
                     key(i) == Val(parse_to_pydantic(d[i].key, converter))
                 IN  (\A i, j \in 1..Len(d) : i # j => key(i) # key(j))
                     => /\ f \in DOMAIN Val(out)
                        /\ Val(out)[f] # None
                        /\ Len(Val(out)[f][1]) = Len(d)
                        /\ \A i \in 1..Len(d) :
                              /\ Val(out)[f][1][i].key = key(i)
                              /\ Val(out)[f][1][i].value =
                                     Val(process(d[i].value, converter))

\* What Annotation.target is to become: the reference of a URL, the processed
\* Resource, the processed Annotation.
ExpectedTarget(t, conv) ==
    CASE t.k = "AnyUrl" -> parse_to_pydantic(t, conv)
      [] t.k = "Resource" -> Resource_process(t, conv)
      [] t.k = "Annotation" -> Annotation_process(t, conv)

\* The processed variant that matches a raw target's shape.
ExpectedShape(t) ==
    CASE t.k = "AnyUrl" -> "Reference"
      [] t.k = "Resource" -> "ProcessedResource"
      [] t.k = "Annotation" -> "ProcessedAnnotation"

\* The depth of nesting of an Annotation's target.
RECURSIVE TargetDepth(_)
TargetDepth(a) == IF a.target.k = "Annotation" THEN 1 + TargetDepth(a.target) ELSE 0

\* C6: an Annotation whose id resolves and whose target (a URL, a Resource or
\* an Annotation, nested to any depth) can be processed is processed, and its
\* processed target is the reference of the URL, the processed Resource or
\* the processed Annotation: the variant that matches the raw target's shape.
C6_PolymorphicTarget ==
    (Done /\ raw.k = "Annotation"
          /\ raw.target.k \in {"AnyUrl", "Resource", "Annotation"}
          /\ Resolves(raw.id, converter)
          /\ IsOk(ExpectedTarget(raw.target, converter)))
    => /\ IsOk(out)
       /\ Val(out).target = Val(ExpectedTarget(raw.target, converter))
       /\ Val(out).target.k = ExpectedShape(raw.target)

\* An Annotation nested two deep around a URL was processed.
C6_Witness ==
    /\ Done /\ IsOk(out) /\ raw.k = "Annotation"
    /\ TargetDepth(raw) = MaxDepth
    /\ Val(out).target.k = "ProcessedAnnotation"
    /\ Val(out).target.target.k = "ProcessedAnnotation"

\* C7: an absent identifier stays absent, and a list of n resolvable URLs
\* becomes the list of their n references, in order.
C7_UriList ==
    (Done /\ IsOk(out) /\ "identifier" \in DOMAIN raw)
    => /\ raw.identifier = None =>
             ("identifier" \notin DOMAIN Val(out) \/ Val(out).identifier = None)
       /\ (raw.identifier # None
           /\ \A u \in Elements(raw.identifier[1]) : Resolves(u, converter))
          => /\ "identifier" \in DOMAIN Val(out)
             /\ Val(out).identifier =
                    Some([i \in 1..Len(raw.identifier[1]) |->
                             Val(parse_to_pydantic(raw.identifier[1][i], converter))])

PassThroughFields ==
    {"preferred_label", "alternative_label", "hidden_label", "scope_note",
     "definition", "example", "rank", "mapping_relevance"}

\* C8: the language maps, the rank and the mapping relevance of a raw entity
\* that was processed are found unchanged in the processed entity.
C8_PassThrough ==
    /\ \A f \in PassThroughFields :
          (Done /\ IsOk(out) /\ f \in DOMAIN raw /\ raw[f] # None)
          => (f \in DOMAIN Val(out) /\ Val(out)[f] = raw[f])
    /\ (Done /\ IsOk(out) /\ raw.k = "KOS")
       => (Val(out).title = raw.title /\ Val(out).description = raw.description)

\* The innermost target of a chain of nested Annotations.
RECURSIVE InnermostTarget(_)
InnermostTarget(a) ==
    IF a.target.k = "Annotation" THEN InnermostTarget(a.target) ELSE a.target

\* C9: processing an Annotation whose target (its own, or that of the
\* Annotations nested as its target) is none of a URL, a Resource or an
\* Annotation fails with TypeError and returns nothing.
C9_TypeMismatch ==
    (Done /\ raw.k = "Annotation"
          /\ InnermostTarget(raw).k \notin {"AnyUrl", "Resource", "Annotation"})
    => out = Raise("TypeError")

\* An Annotation whose target is a plain string was processed.
C9_Witness ==
    /\ Done /\ raw.k = "Annotation" /\ raw.target.k = "str"
    /\ out.err = "TypeError"

ProcessedChildren(p) ==
    (UNION {IF p[f] # None THEN Elements(p[f][1]) \ {NoneValue} ELSE {} :
               f \in ProcessedListFields \cap DOMAIN p})
    \cup UNION {IF p[f] # None THEN {e.value : e \in Elements(p[f][1])} ELSE {} :
                   f \in DictFields \cap DOMAIN p}
    \cup UNION {IF p[f] # None THEN {p[f][1]} ELSE {} :
                   f \in {"from_scheme", "to_scheme"} \cap DOMAIN p}
    \cup {p[f] : f \in {"resource", "from_bundle", "to_bundle", "literal", "target"}
                      \cap DOMAIN p}

\* The objects of the tree rooted at p that the raw tree's construction
\* allocated.
RECURSIVE RawNodes(_)
RawNodes(p) ==
    (IF "alloc" \in DOMAIN p /\ p.alloc = "model_validate" THEN {p} ELSE {})
    \cup UNION {RawNodes(c) : c \in ProcessedChildren(p)}

\* C12: no object of a processed tree that process() returns is an object
\* of the raw tree (a qualified literal's literal record included), so that
\* assigning to a raw object later cannot change the processed tree.
C12_NoAliasing == (Done /\ IsOk(out)) => RawNodes(Val(out)) = {}

\* C13: KOS.process succeeds on a KOS all of whose URLs resolve and all of
\* whose top concepts can be processed, has_top_concept absent or not; the
\* result keeps id, type, title and description, and its concepts are as
\* many as has_top_concept holds, none when it is absent.
C13_KOSProcess ==
    (Done /\ raw.k = "KOS" /\ Sound(raw, converter))
    => /\ IsOk(out)
       /\ \A f \in {"id", "type", "title", "description"} : Val(out)[f] = raw[f]
       /\ Val(out).concepts # None
       /\ Len(Val(out).concepts[1])
              = (IF raw.has_top_concept = None THEN 0 ELSE Len(raw.has_top_concept[1]))

\* The reference that the key of entry i of the raw dict d compacts to.
KeyOf(d, i, conv) == Val(parse_to_pydantic(d[i].key, conv))

Collides(d, conv) ==
    \E i, j \in 1..Len(d) : i # j /\ KeyOf(d, i, conv) = KeyOf(d, j, conv)

\* p has one entry per reference that a key of d compacts to, and its value
\* is the processed value of the last entry of d with that reference.
LastWriteWins(d, p, conv) ==
    /\ \A i, j \in 1..Len(p) : i # j => p[i].key # p[j].key
    /\ {p[i].key : i \in 1..Len(p)} = {KeyOf(d, i, conv) : i \in 1..Len(d)}
    /\ \A i \in 1..Len(p) :
          LET last == CHOOSE j \in 1..Len(d) :
                          /\ KeyOf(d, j, conv) = p[i].key
                          /\ \A h \in 1..Len(d) :
                                KeyOf(d, h, conv) = p[i].key => h <= j
          IN  p[i].value = Val(process(d[last].value, conv))

\* C14: when two raw keys of a qualified dict of an entity compact to the
\* same reference (and nothing else in the entity can fail), processing
\* succeeds, and the processed dict holds one entry per reference, with the
\* processed value of the last raw entry of that reference; the entries of
\* the other keys are as without the collision.
C14_KeyCollision ==
    \A f \in DictFields :
        (/\ Done /\ f \in DOMAIN raw /\ raw[f] # None
         /\ Sound(raw, converter) /\ Collides(raw[f][1], converter))
        => /\ IsOk(out)
           /\ f \in DOMAIN Val(out)
           /\ Val(out)[f] # None
           /\ LastWriteWins(raw[f][1], Val(out)[f][1], converter)

---------------------------------------------------------------------------
(* A pool of worker threads.  Each worker takes a document nobody has      *)
(* taken, calls its process() with the converter all workers share, and    *)
(* stores the outcome under the document.  A thread switch can happen      *)
(* between any two iterations of the comprehension in process_many, so a   *)
(* call is followed element by element: the worker's frame holds the       *)
(* document, the index of the next top concept and the list built so far.  *)

\* The number of documents.
NumDocs == 2

\* The number of worker threads.
NumWorkers == 2

Workers == 1..NumWorkers

JustifiedMapping ==
    Mapping([subject_bundle |-> ConceptBundle(<<>>),
             object_bundle |-> ConceptBundle(<<>>),
             justification |-> Some(PrefLabel)])

Documents ==
    {KOS("oefos2012", "ConceptScheme", LanguageMap, LanguageMap, c) :
        c \in {None,
               Some(<<Concept(<<>>), Concept([uri |-> Some(Q406)])>>),
               Some(<<Concept(<<>>), Concept([mappings |-> Some(<<JustifiedMapping>>)])>>),
               Some(<<Concept([narrower |-> Some(<<>>)]),
                      Concept([broader |-> Some(<<Resource(<<>>)>>)])>>)}}

IdleFrame == [job |-> 0, i |-> 0, acc |-> <<>>]

InitPool ==
    /\ converter \in Converters
    /\ raw = NoneValue
    /\ out = NoOutcome
    /\ pc = "idle"
    /\ docs \in [1..NumDocs -> Documents]
    /\ results = [d \in 1..NumDocs |-> NoOutcome]
    /\ worker = [w \in Workers |-> IdleFrame]
    /\ NoStack

Pending(d) ==
    /\ results[d] = NoOutcome
    /\ \A w \in Workers : worker[w].job # d

\* Worker w calls docs[d].process(converter).
Take(w, d) ==
    /\ worker[w].job = 0
    /\ Pending(d)
    /\ worker' = [worker EXCEPT ![w] = [job |-> d, i |-> 1, acc |-> <<>>]]
    /\ UNCHANGED <<converter, raw, out, pc, docs, results, stackVars>>

\* The top concepts still to be processed by worker w.
Remaining(w) ==
    LET concepts == docs[worker[w].job].has_top_concept
    IN  IF concepts = None THEN <<>>
        ELSE SubSeq(concepts[1], worker[w].i, Len(concepts[1]))

\* Mutant: the list under construction is one list shared by the workers.
WorkerStep_SharedList(w) ==
    /\ worker[w].job # 0
    /\ Remaining(w) # <<>>
    /\ LET o == process(Remaining(w)[1], converter)
       IN  IF IsOk(o)
           THEN /\ worker' = [v \in Workers |->
                                 IF v = w
                                 THEN [worker[v] EXCEPT !.i = @ + 1,
                                                        !.acc = Append(@, Val(o))]
                                 ELSE IF worker[v].job # 0
                                 THEN [worker[v] EXCEPT !.acc = Append(@, Val(o))]
                                 ELSE worker[v]]
                /\ UNCHANGED results
           ELSE /\ results' = [results EXCEPT ![worker[w].job] = o]
                /\ worker' = [worker EXCEPT ![w] = IdleFrame]
    /\ UNCHANGED <<converter, raw, out, pc, docs, stackVars>>

\* One iteration of process_many's comprehension in worker w: the next top
\* concept is processed and appended; an exception ends the call.
WorkerStep(w) ==
    /\ worker[w].job # 0
    /\ Remaining(w) # <<>>
    /\ LET o == process(Remaining(w)[1], converter)
       IN  IF IsOk(o)
           THEN /\ worker' = [worker EXCEPT ![w].i = @ + 1,
                                            ![w].acc = Append(@, Val(o))]
                /\ UNCHANGED results
           ELSE /\ results' = [results EXCEPT ![worker[w].job] = o]
                /\ worker' = [worker EXCEPT ![w] = IdleFrame]
    /\ UNCHANGED <<converter, raw, out, pc, docs, stackVars>>

\* process_many has returned in worker w: ProcessedKOS is built and the
\* outcome stored.
WorkerReturn(w) ==
    /\ worker[w].job # 0
    /\ Remaining(w) = <<>>
    /\ LET self == docs[worker[w].job]
           concepts == IF self.has_top_concept = None
                       THEN None
                       ELSE Some(worker[w].acc)
       IN  results' = [results EXCEPT ![worker[w].job] =
               Construct("ProcessedKOS", <<
                   <<"id", Ok(self.id)>>,
                   <<"type", Ok(self.type)>>,
                   <<"title", Ok(self.title)>>,
                   <<"description", Ok(self.description)>>,
                   <<"concepts", Ok(concepts)>> >>)]
    /\ worker' = [worker EXCEPT ![w] = IdleFrame]
    /\ UNCHANGED <<converter, raw, out, pc, docs, stackVars>>

NextPool ==
    \/ \E w \in Workers, d \in 1..NumDocs : Take(w, d)
    \/ \E w \in Workers : WorkerStep(w)
    \/ \E w \in Workers : WorkerReturn(w)

SpecPool == InitPool /\ [][NextPool]_vars

\* C11: whatever the interleaving of the workers, the outcome stored for a
\* document is the outcome of processing that document on its own, in one
\* piece, with the same converter.
C11_InterleavingIndependent ==
    \A d \in DOMAIN results :
        results[d] # NoOutcome => results[d] = KOS_process(docs[d], converter)

\* One document is done with two processed concepts while another worker
\* is half way through another document.
C11_Witness ==
    \E d \in DOMAIN results, w \in DOMAIN worker :
        /\ IsOk(results[d])
        /\ Len(Val(results[d]).concepts[1]) = 2
        /\ worker[w].job # 0
        /\ worker[w].i = 2

---------------------------------------------------------------------------
(* One call followed frame by frame.  The raw objects are the nodes of a   *)
(* graph: a node holds its class and, per list field, None or the list of  *)
(* the nodes it refers to, 0 standing for a None element.  Objects are     *)
(* mutable, so that a list assigned after construction may refer back to   *)
(* an object above it.  Node 1 is the entity whose process() is called.    *)
(* A frame holds the node, the position of the keyword argument under      *)
(* evaluation, the index of the next element, the list built so far and    *)
(* the arguments evaluated so far.                                         *)

\* The number of objects of the graph.
MaxNodes == 2

\* The interpreter's recursion limit, counted in frames of process().
RecursionLimit == 4

Nodes == 1..MaxNodes

EdgeFields == {"narrower", "broader", "related", "creator"}

NoEdges == [f \in EdgeFields |-> None]

EdgeLists == {Some(<<j>>) : j \in Nodes} \cup {Some(<<0, j>>) : j \in Nodes}

\* The objects a node may be: a Concept, a Resource or an Item with at most
\* one list field set.  narrower, broader and related are fields of Concept
\* only.
NodeValues ==
    {[k |-> c] @@ NoEdges : c \in {"Concept", "Resource", "Item"}}
    \cup {[k |-> "Concept"] @@ [n \in {f} |-> l] @@ NoEdges :
             f \in EdgeFields, l \in EdgeLists}
    \cup {[k |-> c] @@ [creator |-> l] @@ NoEdges :
             c \in {"Resource", "Item"}, l \in EdgeLists}

\* The list-valued keyword arguments that the process() of a class
\* evaluates by recursion, in order, and the helper each goes through.
Traversal(cls) ==
    CASE cls = "Concept" -> <<[f |-> "narrower", via |-> "process_many"],
                              [f |-> "broader", via |-> "process_many"],
                              [f |-> "related", via |-> "process_many"]>>
      [] cls = "Resource" -> <<[f |-> "creator", via |-> "_process_jskos_set"]>>
      [] cls = "Item" -> <<>>

Frame(n) == [node |-> n, arg |-> 1, i |-> 1, acc |-> <<>>, args |-> <<>>]

InitStack ==
    /\ converter = {Wikidata}
    /\ raw = NoneValue
    /\ out = NoOutcome
    /\ pc = "idle"
    /\ NoPool
    /\ graph \in [Nodes -> NodeValues]
    /\ stack = <<>>
    /\ ret = NoOutcome
    /\ nesting = 0

Top == stack[Len(stack)]

\* The keyword argument under evaluation in the top frame, and its list.
Arg == Traversal(graph[Top.node].k)[Top.arg]

ArgList == graph[Top.node][Arg.f]

InArg ==
    /\ stack # <<>>
    /\ Top.arg <= Len(Traversal(graph[Top.node].k))

HasElement == ArgList # None /\ Top.i <= Len(ArgList[1])

\* An exception leaves every frame: no process() catches anything.
Unwind(e) ==
    /\ stack' = <<>>
    /\ ret' = Raise(e)
    /\ UNCHANGED nesting

\* graph[1].process(converter) is called.
CallRoot ==
    /\ stack = <<>>
    /\ ret = NoOutcome
    /\ nesting = 0
    /\ stack' = <<Frame(1)>>
    /\ nesting' = 1
    /\ UNCHANGED <<converter, raw, out, pc, poolVars, graph, ret>>

\* _process_jskos_set: a None element is passed on.
PassNone ==
    /\ InArg
    /\ HasElement
    /\ Arg.via = "_process_jskos_set"
    /\ ArgList[1][Top.i] = 0
    /\ stack' = [stack EXCEPT ![Len(stack)].i = @ + 1,
                              ![Len(stack)].acc = Append(@, NoneValue)]
    /\ UNCHANGED <<converter, raw, out, pc, poolVars, graph, ret, nesting>>

\* e.process(converter) on the next element: None has no process; a frame
\* beyond the recursion limit raises RecursionError; otherwise the
\* element's process() is entered.
CallElement ==
    /\ InArg
    /\ HasElement
    /\ LET e == ArgList[1][Top.i]
       IN  /\ ~(Arg.via = "_process_jskos_set" /\ e = 0)
           /\ IF e = 0
              THEN Unwind("AttributeError")
              ELSE IF Len(stack) = RecursionLimit
              THEN Unwind("RecursionError")
              ELSE /\ stack' = Append(stack, Frame(e))
                   /\ nesting' = IF Len(stack) + 1 > nesting
                                 THEN Len(stack) + 1 ELSE nesting
                   /\ UNCHANGED ret
    /\ UNCHANGED <<converter, raw, out, pc, poolVars, graph>>

\* The helper returns: None for None, else the list built.
ArgDone ==
    /\ InArg
    /\ ~HasElement
    /\ stack' = [stack EXCEPT
           ![Len(stack)].args =
               Append(@, <<Arg.f, Ok(IF ArgList = None THEN None ELSE Some(Top.acc))>>),
           ![Len(stack)].arg = @ + 1,
           ![Len(stack)].i = 1,
           ![Len(stack)].acc = <<>>]
    /\ UNCHANGED <<converter, raw, out, pc, poolVars, graph, ret, nesting>>

\* Every argument is evaluated: the processed object is built and
\* validated, and returned to the frame below or to the caller.
Return ==
    /\ stack # <<>>
    /\ ~InArg
    /\ LET o == Construct("Processed" \o graph[Top.node].k, Top.args)
           below == Len(stack) - 1
       IN  IF ~IsOk(o)
           THEN Unwind(o.err)
           ELSE IF below = 0
           THEN /\ stack' = <<>>
                /\ ret' = o
                /\ UNCHANGED nesting
           ELSE /\ stack' = [SubSeq(stack, 1, below) EXCEPT
                                ![below].i = @ + 1,
                                ![below].acc = Append(@, Val(o))]
                /\ UNCHANGED <<ret, nesting>>
    /\ UNCHANGED <<converter, raw, out, pc, poolVars, graph>>

NextStack ==
    \/ CallRoot
    \/ PassNone
    \/ CallElement
    \/ ArgDone
    \/ Return

SpecStack == InitStack /\ [][NextStack]_vars

\* The nodes that node n refers to through the fields F.
Succ(n, F) ==
    UNION {IF graph[n][f] = None THEN {}
           ELSE {graph[n][f][1][i] : i \in 1..Len(graph[n][f][1])} \ {0} : f \in F}

RECURSIVE Closure(_, _, _)
Closure(S, F, steps) ==
    IF steps = 0 THEN S
    ELSE Closure(S \cup UNION {Succ(n, F) : n \in S}, F, steps - 1)

\* The nodes reachable from n in one step or more through the fields F.
Reach(n, F) == Closure(Succ(n, F), F, MaxNodes)

\* The input of the call: node 1 and what is reachable from it.
InputNodes == {1} \cup Reach(1, EdgeFields)

Acyclic == \A n \in InputNodes : n \notin Reach(n, EdgeFields)

\* The depth of the input tree below node n, n counting 1.
RECURSIVE Depth(_)
Depth(n) ==
    LET below == {Depth(c) : c \in Succ(n, EdgeFields)}
    IN  1 + (IF below = {} THEN 0 ELSE CHOOSE d \in below : \A e \in below : e <= d)

\* C15: on an acyclic input a call that has ended (with a processed tree or
\* an error) nested its process() frames as deep as the input tree is; on
\* an input whose root Concept is reachable from itself through narrower,
\* broader or related, the call never ends with anything.
C15_DepthAndCycles ==
    /\ (Acyclic /\ ret # NoOutcome) => nesting = Depth(1)
    /\ (graph[1].k = "Concept" /\ 1 \in Reach(1, {"narrower", "broader", "related"}))
           => ret = NoOutcome

====
